---- MODULE Spec2Model ----
(***************************************************************************)
(* Model of parsito's embedding (src/src/parsito/embedding/embedding.cpp): *)
(* load, lookup_word, unknown_word, weight and update_weights, together    *)
(* with the writes a trainer makes through the pointer weight() returns.   *)
(*                                                                         *)
(* Words are sequences of code points (one-character strings).  Floats are *)
(* modelled as exact rationals <<numerator, denominator>>; rounding is not *)
(* modelled.  The unsigned product id * dimension keeps its 32-bit width.  *)
(***************************************************************************)
EXTENDS Integers, Sequences, FiniteSets, TLC

VARIABLES
  pc,               \* "new" (constructed), "loaded", "crashed"
  stream,           \* the binary stream handed to load (kept for reference)
  dimension,        \* unsigned dimension
  dictionary,       \* unordered_map<string, int>
  unknown_index,    \* int
  subform,          \* bool
  weights,          \* vector<float>, element k of the code is weights[k + 1]
  subforms,         \* vector<vector<int>>, entry id of the code is subforms[id + 1]
  previous_weights, \* vector<vector<float>>, same indexing
  active_subforms,  \* vector<int>
  decomposed_forms, \* unordered_map<string, int>
  op,               \* the last call made on the embedding
  arg_word,         \* its word argument (lookup_word), else <<>>
  arg_id,           \* its id argument (weight, external write), else 0
  ret,              \* its return value, 0 if it returns none
  nwrites,          \* number of external writes so far
  calls,            \* per thread, the weight(id) call it is in the middle of
  overlap           \* some weight call began while another was in progress

vars == <<pc, stream, dimension, dictionary, unknown_index, subform, weights,
          subforms, previous_weights, active_subforms, decomposed_forms,
          op, arg_word, arg_id, ret, nwrites, calls, overlap>>

embedding == <<dimension, dictionary, unknown_index, subform, weights,
               subforms, previous_weights, active_subforms, decomposed_forms>>

----------------------------------------------------------------------------
(* Bounds of the model *)

\* longest dictionary section of a stream
MaxDict == 2
\* most words memoized in decomposed_forms
MaxMemo == 2
\* most external writes through weight()'s pointer
MaxWrites == 1

----------------------------------------------------------------------------
(* Exact rational arithmetic standing for float *)

Abs(n) == IF n < 0 THEN -n ELSE n

RECURSIVE GCD(_, _)
GCD(a, b) == IF b = 0 THEN a ELSE GCD(b, a % b)

Rat(n, d) ==
  LET g == GCD(Abs(n), Abs(d))
      s == IF d < 0 THEN -1 ELSE 1
  IN <<(s * n) \div g, (s * d) \div g>>

Flt(n) == <<n, 1>>
FAdd(x, y) == Rat(x[1] * y[2] + y[1] * x[2], x[2] * y[2])
FSub(x, y) == Rat(x[1] * y[2] - y[1] * x[2], x[2] * y[2])
FMul(x, y) == Rat(x[1] * y[1], x[2] * y[2])
\* 1.f / float(n)
FInv(n) == Rat(1, n)

----------------------------------------------------------------------------
(* unilib: categories and lowercasing of the code points of the model *)

\* "I" and "i" stand for the Roman numerals U+2160 and U+2170: letter
\* numbers (Nl), not uppercase, yet U+2160 has the lowercase U+2170
Chars == {"a", "A", "1", "-", "<", ">", "I", "i"}

\* unicode::category: one general category per code point
category(chr) ==
  CASE chr = "a" -> {"Ll"}
    [] chr = "A" -> {"Lu"}
    [] chr = "1" -> {"Nd"}
    [] chr = "-" -> {"Pd"}
    [] chr = "I" -> {"Nl"}
    [] chr = "i" -> {"Nl"}
    [] OTHER     -> {"Sm"}

\* unicode::Lut, unicode::L, unicode::N: the category unions the code tests
Lut == {"Lu", "Lt"}
L == {"Lu", "Ll", "Lt", "Lm", "Lo"}
N == {"Nd", "Nl", "No"}

\* unicode::lowercase
lowercase(chr) ==
  CASE chr = "A" -> "a"
    [] chr = "I" -> "i"
    [] OTHER     -> chr

\* utf8::map(unicode::lowercase, word, buffer)
map_lowercase(word) == [i \in 1..Len(word) |-> lowercase(word[i])]

\* lines 89-92: lowercase all characters but the first
lowercase_but_first(word) ==
  [i \in 1..Len(word) |-> IF i = 1 THEN word[i] ELSE lowercase(word[i])]

\* lines 78-83: first_category and other_categories
first_category(word) == IF Len(word) = 0 THEN {} ELSE category(word[1])
other_categories(word) ==
  UNION {category(word[i]) : i \in 2..Len(word)}

----------------------------------------------------------------------------
(* Inputs of the model *)

\* code points of the words handed to lookup_word
WordChars == {"a", "A", "1", "-"}

\* longest word handed to lookup_word when subform mode is disabled
MaxWordLen == 2

LookupWords == UNION {[1..n -> WordChars] : n \in 0..MaxWordLen}

\* words handed to lookup_word of an embedding in subform mode
SubformWords == { <<"a">>, <<"a", "a">>, <<"a", "a", "a">>, <<"1">> }

\* words a stream's dictionary section is made of
DictWords ==
  { <<"a", "a">>, <<"A", "a">>, <<"1">>, <<"<", "a">> }

\* streams and words of the n-gram decomposition: dictionary entries of one to
\* five code points, all of them substrings of the marked forms of the words
NgramDictWords ==
  { <<"a">>, <<"<", "a">>, <<"a", "a">>, <<"<", "a", "a">>,
    <<"a", "a", "a", ">">>, <<"<", "a", "a", "a", ">">> }

NgramStreams ==
  [ dimension   : {1},
    words       : UNION {[1..n -> NgramDictWords] : n \in 0..MaxDict},
    has_unknown : {0, 1},
    subform     : {1},
    seed        : {0} ]

NgramWords == { <<>>, <<"a">>, <<"a", "a">>, <<"a", "a", "a">> }

\* streams and words of the fallback chain
ChainDictWords == { <<"A", "a">>, <<"a", "a">>, <<"i">> }

ChainStreams ==
  [ dimension   : {1},
    words       : UNION {[1..n -> ChainDictWords] : n \in 0..MaxDict},
    has_unknown : {0, 1},
    subform     : {0},
    seed        : {0} ]

ChainWords ==
  { <<"A", "A">>, <<"A", "a">>, <<"a", "A">>, <<"a", "a">>, <<"I">>, <<"a">> }

\* streams and words of an embedding whose weight is called by two threads
RaceStreams ==
  [ dimension   : {1},
    words       : { << <<"a", "a">>, <<"<", "a">> >> },
    has_unknown : {0, 1},
    subform     : {1},
    seed        : {1} ]

RaceWords == { <<"a", "a">>, <<"a">> }

\* the float block of a stream: value k (0-based) of the block with this seed
FloatAt(seed, k) == Flt(seed + k)

\* streams handed to load
Streams ==
  [ dimension   : {2},
    words       : UNION {[1..n -> DictWords] : n \in 0..MaxDict},
    has_unknown : {0, 1},
    subform     : {0, 1},
    seed        : {0} ]

\* streams and words of a training run
TrainStreams ==
  [ dimension   : {2},
    words       : { << <<"a", "a">>, <<"<", "a">> >> },
    has_unknown : {0, 1},
    subform     : {0, 1},
    seed        : {0} ]

TrainWords == { <<"a">>, <<"a", "a">>, <<"1">> }

\* values a trainer writes into a row
WriteVals == {Flt(6)}

\* streams of the range check of weight
RangeStreams ==
  [ dimension   : {1, 2, 3, 4},
    words       : UNION {[1..n -> DictWords] : n \in 0..1},
    has_unknown : {0, 1},
    subform     : {0, 1},
    seed        : {0} ]

----------------------------------------------------------------------------
(* load *)

EmptyMap == [w \in {} |-> 0]

\* dictionary.emplace(word, dictionary.size()): no effect if word is a key
emplace(map, key, value) ==
  IF key \in DOMAIN map THEN map ELSE map @@ (key :> value)

\* lines 173-178 with ids counted from one
RECURSIVE load_dictionary_one_based(_, _, _)
load_dictionary_one_based(words, i, dict) ==
  IF i > Len(words) THEN dict
  ELSE load_dictionary_one_based(words, i + 1,
         emplace(dict, words[i], Cardinality(DOMAIN dict) + 1))

\* lines 173-178: the dictionary after reading words[i..]
RECURSIVE load_dictionary(_, _, _)
load_dictionary(words, i, dict) ==
  IF i > Len(words) THEN dict
  ELSE load_dictionary(words, i + 1,
                       emplace(dict, words[i], Cardinality(DOMAIN dict)))

\* lines 166-189 with 0 for -1 in line 180
load_unknown_zero(data) ==
  LET dict  == load_dictionary(data.words, 1, EmptyMap)
      size  == Cardinality(DOMAIN dict)
      unk   == IF data.has_unknown # 0 THEN size ELSE 0
      count == data.dimension * (size + (IF unk >= 0 THEN 1 ELSE 0))
      w     == [k \in 1..count |-> FloatAt(data.seed, k - 1)]
  IN [ dimension        |-> data.dimension,
       dictionary       |-> dict,
       unknown_index    |-> unk,
       subform          |-> (data.subform # 0),
       weights          |-> w,
       subforms         |-> [i \in 1..(Len(w) \div data.dimension) |-> <<>>],
       previous_weights |-> [i \in 1..(Len(w) \div data.dimension) |-> <<>>] ]

\* lines 166-189: the members load sets
load(data) ==
  LET dict  == load_dictionary(data.words, 1, EmptyMap)
      size  == Cardinality(DOMAIN dict)
      unk   == IF data.has_unknown # 0 THEN size ELSE -1
      count == data.dimension * (size + (IF unk >= 0 THEN 1 ELSE 0))
      w     == [k \in 1..count |-> FloatAt(data.seed, k - 1)]
  IN [ dimension        |-> data.dimension,
       dictionary       |-> dict,
       unknown_index    |-> unk,
       subform          |-> (data.subform # 0),
       weights          |-> w,
       subforms         |-> [i \in 1..(Len(w) \div data.dimension) |-> <<>>],
       previous_weights |-> [i \in 1..(Len(w) \div data.dimension) |-> <<>>] ]

----------------------------------------------------------------------------
(* lookup_word *)

\* lines 31-32
word_bow_eow(word) == <<"<">> \o word \o <<">">>

\* lines 35-46 with len < 5 for len < 4 in line 37
RECURSIVE collect_subforms_five(_, _, _, _)
collect_subforms_five(m, p, len, acc) ==
  IF p > Len(m) THEN acc
  ELSE IF len >= 5 \/ p + len > Len(m) THEN collect_subforms_five(m, p + 1, 1, acc)
  ELSE LET buffer == SubSeq(m, p, p + len)
       IN collect_subforms_five(m, p, len + 1,
            IF buffer \in DOMAIN dictionary
              THEN Append(acc, dictionary[buffer]) ELSE acc)

\* lines 35-46: the ids pushed to subforms.back(), in push order; form starts
\* at position p and buffer is its first len + 1 code points
RECURSIVE collect_subforms(_, _, _, _)
collect_subforms(m, p, len, acc) ==
  IF p > Len(m) THEN acc
  ELSE IF len >= 4 \/ p + len > Len(m) THEN collect_subforms(m, p + 1, 1, acc)
  ELSE LET buffer == SubSeq(m, p, p + len)
       IN collect_subforms(m, p, len + 1,
            IF buffer \in DOMAIN dictionary
              THEN Append(acc, dictionary[buffer]) ELSE acc)

\* line 57 left out: the list stays in push order
sort_none(s) == s

\* line 57: sort (insertion of x into the sorted sequence s)
RECURSIVE insert_sorted(_, _)
insert_sorted(s, x) ==
  IF s = <<>> THEN <<x>>
  ELSE IF x <= Head(s) THEN <<x>> \o s
  ELSE <<Head(s)>> \o insert_sorted(Tail(s), x)

RECURSIVE sort(_)
sort(s) == IF s = <<>> THEN <<>> ELSE insert_sorted(sort(Tail(s)), Head(s))

\* line 58: erase(unique(...)): drop each element equal to its predecessor
RECURSIVE unique(_)
unique(s) ==
  IF Len(s) <= 1 THEN s
  ELSE IF s[1] = s[2] THEN unique(Tail(s))
  ELSE <<Head(s)>> \o unique(Tail(s))

\* line 85: the first and some other character are uppercase/titlecase
lut_both(word) ==
  first_category(word) \cap Lut # {} /\ other_categories(word) \cap Lut # {}

\* line 98 with && for ||
lut_any_and(word) ==
  first_category(word) \cap Lut # {} /\ other_categories(word) \cap Lut # {}

\* line 98: the first or some other character is uppercase/titlecase
lut_any(word) ==
  first_category(word) \cap Lut # {} \/ other_categories(word) \cap Lut # {}

\* line 107 without its negation
starts_number_and_letter(word) ==
  first_category(word) \cap N # {} /\ other_categories(word) \cap L # {}

\* line 107: the first character is numeric and no other is a letter
starts_number(word) ==
  first_category(word) \cap N # {} /\ other_categories(word) \cap L = {}

\* lines 76-115 alone: the chain without the exact match of lines 72-73
lookup_heuristic_no_exact(word) ==
  IF lut_both(word) /\ lowercase_but_first(word) \in DOMAIN dictionary
    THEN dictionary[lowercase_but_first(word)]
  ELSE IF lut_any(word) /\ map_lowercase(word) \in DOMAIN dictionary
    THEN dictionary[map_lowercase(word)]
  ELSE IF starts_number(word) /\ SubSeq(word, 1, 1) \in DOMAIN dictionary
    THEN dictionary[SubSeq(word, 1, 1)]
  ELSE unknown_index

\* lines 72-115 with the blocks of lines 85-96 and 98-103 exchanged: the fully
\* lowercased form is tried first
lookup_heuristic_lowercase_first(word) ==
  IF word \in DOMAIN dictionary
    THEN dictionary[word]
  ELSE IF lut_any(word) /\ map_lowercase(word) \in DOMAIN dictionary
    THEN dictionary[map_lowercase(word)]
  ELSE IF lut_both(word) /\ lowercase_but_first(word) \in DOMAIN dictionary
    THEN dictionary[lowercase_but_first(word)]
  ELSE IF starts_number(word) /\ SubSeq(word, 1, 1) \in DOMAIN dictionary
    THEN dictionary[SubSeq(word, 1, 1)]
  ELSE unknown_index

\* lines 72-115: the heuristic chain of the non-subform branch; each step
\* returns on a hit and falls through on a miss
lookup_heuristic(word) ==
  IF word \in DOMAIN dictionary
    THEN dictionary[word]
  ELSE IF lut_both(word) /\ lowercase_but_first(word) \in DOMAIN dictionary
    THEN dictionary[lowercase_but_first(word)]
  ELSE IF lut_any(word) /\ map_lowercase(word) \in DOMAIN dictionary
    THEN dictionary[map_lowercase(word)]
  ELSE IF starts_number(word) /\ SubSeq(word, 1, 1) \in DOMAIN dictionary
    THEN dictionary[SubSeq(word, 1, 1)]
  ELSE unknown_index

\* lines 25-70 with line 50 left out: the empty list stays in subforms
lookup_subform_no_pop(word) ==
  LET same == [ ret |-> 0, aborted |-> FALSE, weights |-> weights,
                subforms |-> subforms, previous_weights |-> previous_weights,
                decomposed_forms |-> decomposed_forms ]
      found == collect_subforms(word_bow_eow(word), 1, 1, <<>>)
      back == unique(sort(IF found = <<>> THEN <<unknown_index>> ELSE found))
      id == Len(subforms)
  IN IF word \in DOMAIN decomposed_forms
       THEN [same EXCEPT !.ret = decomposed_forms[word]]
     ELSE IF found = <<>> /\ unknown_index < 0
       THEN [same EXCEPT !.ret = unknown_index,
               !.subforms = Append(subforms, <<>>),
               !.decomposed_forms = emplace(decomposed_forms, word, unknown_index)]
     ELSE IF (Len(weights) \div dimension) # id \/ Len(previous_weights) # id
       THEN [same EXCEPT !.aborted = TRUE,
               !.subforms = Append(subforms, back)]
     ELSE [ ret |-> id, aborted |-> FALSE,
            weights |-> weights \o [j \in 1..dimension |-> Flt(0)],
            subforms |-> Append(subforms, back),
            previous_weights |->
              Append(previous_weights, [j \in 1..(dimension + 1) |-> Flt(0)]),
            decomposed_forms |-> emplace(decomposed_forms, word, id) ]

\* lines 25-70 without the memo of lines 26-30: every call decomposes again
lookup_subform_no_memo(word) ==
  LET found == collect_subforms(word_bow_eow(word), 1, 1, <<>>)
      back == unique(sort(IF found = <<>> THEN <<unknown_index>> ELSE found))
      id == Len(subforms)
  IN IF found = <<>> /\ unknown_index < 0
       THEN [ ret |-> unknown_index, aborted |-> FALSE, weights |-> weights,
              subforms |-> subforms, previous_weights |-> previous_weights,
              decomposed_forms |-> emplace(decomposed_forms, word, unknown_index) ]
     ELSE [ ret |-> id, aborted |-> FALSE,
            weights |-> weights \o [j \in 1..dimension |-> Flt(0)],
            subforms |-> Append(subforms, back),
            previous_weights |->
              Append(previous_weights, [j \in 1..(dimension + 1) |-> Flt(0)]),
            decomposed_forms |->
              [w \in DOMAIN decomposed_forms \cup {word} |->
                 IF w = word THEN id ELSE decomposed_forms[w]] ]

\* lines 25-70 without line 51: the sentinel is returned but not memoized
lookup_subform_no_sentinel_memo(word) ==
  LET same == [ ret |-> 0, aborted |-> FALSE, weights |-> weights,
                subforms |-> subforms, previous_weights |-> previous_weights,
                decomposed_forms |-> decomposed_forms ]
      found == collect_subforms(word_bow_eow(word), 1, 1, <<>>)
      back == unique(sort(IF found = <<>> THEN <<unknown_index>> ELSE found))
      id == Len(subforms)
  IN IF word \in DOMAIN decomposed_forms
       THEN [same EXCEPT !.ret = decomposed_forms[word]]
     ELSE IF found = <<>> /\ unknown_index < 0
       THEN [same EXCEPT !.ret = unknown_index]
     ELSE IF (Len(weights) \div dimension) # id \/ Len(previous_weights) # id
       THEN [same EXCEPT !.aborted = TRUE,
               !.subforms = Append(subforms, back)]
     ELSE [ ret |-> id, aborted |-> FALSE,
            weights |-> weights \o [j \in 1..dimension |-> Flt(0)],
            subforms |-> Append(subforms, back),
            previous_weights |->
              Append(previous_weights, [j \in 1..(dimension + 1) |-> Flt(0)]),
            decomposed_forms |-> emplace(decomposed_forms, word, id) ]

\* lines 25-70 with 1.f for 0.f in line 64: the new cache slot is born fresh
lookup_subform_fresh_slot(word) ==
  LET same == [ ret |-> 0, aborted |-> FALSE, weights |-> weights,
                subforms |-> subforms, previous_weights |-> previous_weights,
                decomposed_forms |-> decomposed_forms ]
      found == collect_subforms(word_bow_eow(word), 1, 1, <<>>)
      back == unique(sort(IF found = <<>> THEN <<unknown_index>> ELSE found))
      id == Len(subforms)
  IN IF word \in DOMAIN decomposed_forms
       THEN [same EXCEPT !.ret = decomposed_forms[word]]
     ELSE IF found = <<>> /\ unknown_index < 0
       THEN [same EXCEPT !.ret = unknown_index,
               !.decomposed_forms = emplace(decomposed_forms, word, unknown_index)]
     ELSE IF (Len(weights) \div dimension) # id \/ Len(previous_weights) # id
       THEN [same EXCEPT !.aborted = TRUE,
               !.subforms = Append(subforms, back)]
     ELSE [ ret |-> id, aborted |-> FALSE,
            weights |-> weights \o [j \in 1..dimension |-> Flt(0)],
            subforms |-> Append(subforms, back),
            previous_weights |->
              Append(previous_weights, [j \in 1..(dimension + 1) |-> Flt(1)]),
            decomposed_forms |-> emplace(decomposed_forms, word, id) ]

\* lines 25-70: the subform branch; what the call returns and leaves behind
lookup_subform(word) ==
  LET same == [ ret |-> 0, aborted |-> FALSE, weights |-> weights,
                subforms |-> subforms, previous_weights |-> previous_weights,
                decomposed_forms |-> decomposed_forms ]
      found == collect_subforms(word_bow_eow(word), 1, 1, <<>>)
      back == unique(sort(IF found = <<>> THEN <<unknown_index>> ELSE found))
      id == Len(subforms)
  IN IF word \in DOMAIN decomposed_forms
       THEN [same EXCEPT !.ret = decomposed_forms[word]]
     ELSE IF found = <<>> /\ unknown_index < 0
       THEN [same EXCEPT !.ret = unknown_index,
               !.decomposed_forms = emplace(decomposed_forms, word, unknown_index)]
     ELSE IF (Len(weights) \div dimension) # id \/ Len(previous_weights) # id
       THEN [same EXCEPT !.aborted = TRUE,
               !.subforms = Append(subforms, back)]
     ELSE [ ret |-> id, aborted |-> FALSE,
            weights |-> weights \o [j \in 1..dimension |-> Flt(0)],
            subforms |-> Append(subforms, back),
            previous_weights |->
              Append(previous_weights, [j \in 1..(dimension + 1) |-> Flt(0)]),
            decomposed_forms |-> emplace(decomposed_forms, word, id) ]

\* lines 22-116
lookup_word(word) ==
  IF subform THEN lookup_subform(word)
  ELSE [ ret |-> lookup_heuristic(word), aborted |-> FALSE, weights |-> weights,
         subforms |-> subforms, previous_weights |-> previous_weights,
         decomposed_forms |-> decomposed_forms ]

\* lines 118-120
unknown_word == unknown_index

----------------------------------------------------------------------------
(* weight *)

\* the not-found result of weight; a found row is reported as the offset
\* of its first element from weights.data()
nullptr == -1

\* largest int
INT_MAX == 2147483647

\* 2^16: unsigned 32-bit values are kept as <<high half, low half>>
Half == 65536

\* id * dimension of line 127: id converted to unsigned, product modulo 2^32
\* (a >= 0 and b < 2^15)
u32_mul(a, b) ==
  LET lo == (a % Half) * b
      hi == (a \div Half) * b + (lo \div Half)
  IN <<hi % Half, lo % Half>>

\* the comparison u < n of an unsigned 32-bit u with a size_t n < 2^31
u32_less(u, n) ==
  u[1] < n \div Half \/ (u[1] = n \div Half /\ u[2] < n % Half)

\* the value of an unsigned 32-bit u < 2^31
u32_value(u) == u[1] * Half + u[2]

\* line 127: the id passes the range check
in_range(id) == id >= 0 /\ u32_less(u32_mul(id, dimension), Len(weights))

\* number of rows: weights.size() / dimension
rows == Len(weights) \div dimension

\* element j of row id: weights[id * dimension + j]
at(id, j) == id * dimension + j + 1

\* lines 132-134: the constituent rows subs[i..] summed into row id
RECURSIVE add_subforms(_, _, _, _)
add_subforms(w, id, subs, i) ==
  IF i > Len(subs) THEN w
  ELSE add_subforms(
         [k \in 1..Len(w) |->
            IF k \in at(id, 0)..at(id, dimension - 1)
              THEN FAdd(w[k], w[at(subs[i], k - at(id, 0))]) ELSE w[k]],
         id, subs, i + 1)

\* line 130 without its second test: every composed id counts as stale
stale_any_flag(id) == previous_weights[id + 1] # <<>>

\* line 130: the cache slot of id is that of a composed id and is stale
stale(id) ==
  previous_weights[id + 1] # <<>> /\ previous_weights[id + 1][dimension + 1] = Flt(0)

\* lines 131-138 without lines 136-138: the sum is left unnormalized
materialized_sum(id) ==
  LET zeroed == [k \in 1..Len(weights) |->
                   IF k \in at(id, 0)..at(id, dimension - 1) THEN Flt(0) ELSE weights[k]]
  IN add_subforms(zeroed, id, subforms[id + 1], 1)

\* lines 131-138: the row of id recomputed from its constituents
materialized(id) ==
  LET zeroed == [k \in 1..Len(weights) |->
                   IF k \in at(id, 0)..at(id, dimension - 1) THEN Flt(0) ELSE weights[k]]
      summed == add_subforms(zeroed, id, subforms[id + 1], 1)
      normalize == FInv(Len(subforms[id + 1]))
  IN [k \in 1..Len(weights) |->
        IF k \in at(id, 0)..at(id, dimension - 1)
          THEN FMul(summed[k], normalize) ELSE summed[k]]

\* lines 126-147: what weight(id) returns and leaves behind, for an id whose
\* cache slot exists whenever it is read
weight(id) ==
  LET same == [ ret |-> nullptr, weights |-> weights,
                previous_weights |-> previous_weights,
                active_subforms |-> active_subforms ]
      w == materialized(id)
  IN IF ~in_range(id) THEN same
     ELSE IF subform /\ stale(id)
       THEN [ ret |-> u32_value(u32_mul(id, dimension)),
              weights |-> w,
              previous_weights |->
                [previous_weights EXCEPT ![id + 1] =
                   [j \in 1..(dimension + 1) |->
                      IF j <= dimension THEN w[at(id, j - 1)] ELSE Flt(1)]],
              active_subforms |-> Append(active_subforms, id) ]
     ELSE [same EXCEPT !.ret = u32_value(u32_mul(id, dimension))]

\* line 130 reads previous_weights[id] past the end of the vector
reads_past_end(id) == in_range(id) /\ subform /\ id >= Len(previous_weights)

----------------------------------------------------------------------------
(* update_weights *)

\* lines 156-158 storing for adding: = for += in line 158
RECURSIVE add_subforms_delta_assign(_, _, _, _)
add_subforms_delta_assign(w, id, subs, i) ==
  IF i > Len(subs) THEN w
  ELSE add_subforms_delta_assign(
         [k \in 1..Len(w) |->
            IF k \in at(subs[i], 0)..at(subs[i], dimension - 1)
              THEN w[at(id, k - at(subs[i], 0))] ELSE w[k]],
         id, subs, i + 1)

\* lines 156-158: row id added to each of the constituent rows subs[i..]
RECURSIVE add_subforms_delta(_, _, _, _)
add_subforms_delta(w, id, subs, i) ==
  IF i > Len(subs) THEN w
  ELSE add_subforms_delta(
         [k \in 1..Len(w) |->
            IF k \in at(subs[i], 0)..at(subs[i], dimension - 1)
              THEN FAdd(w[k], w[at(id, k - at(subs[i], 0))]) ELSE w[k]],
         id, subs, i + 1)

\* lines 152-160 without line 160: the flags of the active ids stay set
RECURSIVE redistribute_keep_fresh(_, _, _, _)
redistribute_keep_fresh(w, prev, active, i) ==
  IF i > Len(active) THEN [weights |-> w, previous_weights |-> prev]
  ELSE LET id == active[i]
           normalize == FInv(Len(subforms[id + 1]))
           delta == [k \in 1..Len(w) |->
                       IF k \in at(id, 0)..at(id, dimension - 1)
                         THEN FMul(FSub(w[k], prev[id + 1][k - at(id, 0) + 1]), normalize)
                         ELSE w[k]]
           added == add_subforms_delta(delta, id, subforms[id + 1], 1)
       IN redistribute_keep_fresh(added, prev, active, i + 1)

\* lines 152-160 without the subtraction of line 154: the whole row, not its
\* change since the snapshot, is spread over the constituents
RECURSIVE redistribute_whole_row(_, _, _, _)
redistribute_whole_row(w, prev, active, i) ==
  IF i > Len(active) THEN [weights |-> w, previous_weights |-> prev]
  ELSE LET id == active[i]
           normalize == FInv(Len(subforms[id + 1]))
           delta == [k \in 1..Len(w) |->
                       IF k \in at(id, 0)..at(id, dimension - 1)
                         THEN FMul(w[k], normalize)
                         ELSE w[k]]
           added == add_subforms_delta(delta, id, subforms[id + 1], 1)
       IN redistribute_whole_row(added,
                                 [prev EXCEPT ![id + 1][dimension + 1] = Flt(0)],
                                 active, i + 1)

\* lines 152-160 for the ids active[i..]: the weights and cache slots left
RECURSIVE redistribute(_, _, _, _)
redistribute(w, prev, active, i) ==
  IF i > Len(active) THEN [weights |-> w, previous_weights |-> prev]
  ELSE LET id == active[i]
           normalize == FInv(Len(subforms[id + 1]))
           delta == [k \in 1..Len(w) |->
                       IF k \in at(id, 0)..at(id, dimension - 1)
                         THEN FMul(FSub(w[k], prev[id + 1][k - at(id, 0) + 1]), normalize)
                         ELSE w[k]]
           added == add_subforms_delta(delta, id, subforms[id + 1], 1)
       IN redistribute(added,
                       [prev EXCEPT ![id + 1][dimension + 1] = Flt(0)],
                       active, i + 1)

\* lines 149-164 without line 162: the active set is not cleared
update_weights_no_clear ==
  IF subform
    THEN LET r == redistribute(weights, previous_weights, active_subforms, 1)
         IN [ weights |-> r.weights, previous_weights |-> r.previous_weights,
              active_subforms |-> active_subforms ]
    ELSE [ weights |-> weights, previous_weights |-> previous_weights,
           active_subforms |-> active_subforms ]

\* lines 149-164
update_weights ==
  IF subform
    THEN LET r == redistribute(weights, previous_weights, active_subforms, 1)
         IN [ weights |-> r.weights, previous_weights |-> r.previous_weights,
              active_subforms |-> <<>> ]
    ELSE [ weights |-> weights, previous_weights |-> previous_weights,
           active_subforms |-> active_subforms ]

----------------------------------------------------------------------------
(* The embedding as a state machine *)

\* ids handed to weight: negative, every row, one past the last row
WeightIds == {-1} \cup 0..rows

\* and far past the last row: the largest int, and the smallest ints whose
\* products with 3 and with 4 reach 2^32
FarIds == {INT_MAX, 2 * (INT_MAX \div 3) + 2, (INT_MAX \div 2) + 1}

\* threads that call weight
Threads == {1, 2}

Init ==
  /\ pc = "new"
  /\ stream = [dimension |-> 0, words |-> <<>>, has_unknown |-> 0,
               subform |-> 0, seed |-> 0]
  /\ dimension = 0
  /\ dictionary = EmptyMap
  /\ unknown_index = 0
  /\ subform = FALSE
  /\ weights = <<>>
  /\ subforms = <<>>
  /\ previous_weights = <<>>
  /\ active_subforms = <<>>
  /\ decomposed_forms = EmptyMap
  /\ op = "new"
  /\ arg_word = <<>>
  /\ arg_id = 0
  /\ ret = 0
  /\ nwrites = 0
  /\ calls = [t \in Threads |-> [pc |-> "idle", id |-> 0]]
  /\ overlap = FALSE

\* load(data) on the constructed embedding, data one of the streams S
LoadFrom(S) ==
  /\ pc = "new"
  /\ \E data \in S :
       LET r == load(data)
       IN /\ stream' = data
          /\ dimension' = r.dimension
          /\ dictionary' = r.dictionary
          /\ unknown_index' = r.unknown_index
          /\ subform' = r.subform
          /\ weights' = r.weights
          /\ subforms' = r.subforms
          /\ previous_weights' = r.previous_weights
  /\ pc' = "loaded"
  /\ op' = "load"
  /\ UNCHANGED <<active_subforms, decomposed_forms, arg_word, arg_id, ret,
                 nwrites>>
  /\ UNCHANGED <<calls, overlap>>

\* lookup_word(word, buffer), word one of the words W
LookupWordFrom(W) ==
  /\ pc = "loaded"
  /\ \E word \in W :
       /\ (subform /\ word \notin DOMAIN decomposed_forms)
            => Cardinality(DOMAIN decomposed_forms) < MaxMemo
       /\ LET r == lookup_word(word)
          IN /\ pc' = IF r.aborted THEN "aborted" ELSE "loaded"
             /\ ret' = r.ret
             /\ weights' = r.weights
             /\ subforms' = r.subforms
             /\ previous_weights' = r.previous_weights
             /\ decomposed_forms' = r.decomposed_forms
       /\ arg_word' = word
  /\ op' = "lookup_word"
  /\ arg_id' = 0
  /\ UNCHANGED <<stream, dimension, dictionary, unknown_index, subform,
                 active_subforms, nwrites>>
  /\ UNCHANGED <<calls, overlap>>

\* unknown_word()
UnknownWord ==
  /\ pc = "loaded"
  /\ op' = "unknown_word"
  /\ ret' = unknown_word
  /\ arg_word' = <<>>
  /\ arg_id' = 0
  /\ UNCHANGED <<pc, stream, dimension, dictionary, unknown_index, subform,
                 weights, subforms, previous_weights, active_subforms,
                 decomposed_forms, nwrites>>
  /\ UNCHANGED <<calls, overlap>>

\* weight(id), id one of the ids I, for an id that is rejected or whose cache
\* slot exists
WeightFrom(I) ==
  /\ pc = "loaded"
  /\ \E id \in I :
       /\ ~reads_past_end(id)
       /\ LET r == weight(id)
          IN /\ ret' = r.ret
             /\ weights' = r.weights
             /\ previous_weights' = r.previous_weights
             /\ active_subforms' = r.active_subforms
       /\ arg_id' = id
  /\ op' = "weight"
  /\ arg_word' = <<>>
  /\ UNCHANGED <<pc, stream, dimension, dictionary, unknown_index, subform,
                 subforms, decomposed_forms, nwrites>>
  /\ UNCHANGED <<calls, overlap>>

\* weight(id) for an id that passes the range check of line 127 although no
\* cache slot exists for it: line 130 reads past the end of previous_weights,
\* which is undefined.  Either the read faults, or it yields a slot that
\* looks empty or fresh and the call returns the (wrapped) row pointer.
WeightPastEnd ==
  /\ pc = "loaded"
  /\ \E id \in WeightIds \cup FarIds :
       /\ reads_past_end(id)
       /\ arg_id' = id
       /\ \/ pc' = "crashed" /\ ret' = nullptr
          \/ pc' = pc /\ ret' = u32_value(u32_mul(id, dimension))
  /\ op' = "weight"
  /\ arg_word' = <<>>
  /\ UNCHANGED <<stream, dimension, dictionary, unknown_index, subform, weights,
                 subforms, previous_weights, active_subforms, decomposed_forms,
                 nwrites>>
  /\ UNCHANGED <<calls, overlap>>

\* the trainer overwrites the row weight(id) just returned: element j of the
\* row becomes v + j
Write ==
  /\ pc = "loaded"
  /\ op = "weight"
  /\ ret # nullptr
  /\ arg_id < rows
  /\ nwrites < MaxWrites
  /\ \E v \in WriteVals :
       weights' = [k \in 1..Len(weights) |->
                     IF k > ret /\ k <= ret + dimension
                     THEN FAdd(v, Flt(k - ret - 1)) ELSE weights[k]]
  /\ op' = "write"
  /\ nwrites' = nwrites + 1
  /\ UNCHANGED <<pc, stream, dimension, dictionary, unknown_index, subform,
                 subforms, previous_weights, active_subforms, decomposed_forms,
                 arg_word, arg_id, ret>>
  /\ UNCHANGED <<calls, overlap>>

\* update_weights()
UpdateWeights ==
  /\ pc = "loaded"
  /\ LET r == update_weights
     IN /\ weights' = r.weights
        /\ previous_weights' = r.previous_weights
        /\ active_subforms' = r.active_subforms
  /\ op' = "update_weights"
  /\ arg_word' = <<>>
  /\ arg_id' = 0
  /\ ret' = 0
  /\ UNCHANGED <<pc, stream, dimension, dictionary, unknown_index, subform,
                 subforms, decomposed_forms, nwrites>>
  /\ UNCHANGED <<calls, overlap>>

\* no thread is in the middle of a weight call
AllIdle == \A t \in Threads : calls[t].pc = "idle"

\* weight(id) of thread t, lines 127-130: the range check and the staleness
\* test.  The call returns at once (line 127 or line 146) unless the slot is
\* stale; then the thread goes on to line 131.
WeightCheck(t) ==
  /\ pc = "loaded"
  /\ calls[t].pc = "idle"
  /\ \E id \in WeightIds :
       /\ ~reads_past_end(id)
       /\ arg_id' = id
       /\ IF in_range(id) /\ subform /\ stale(id)
            THEN /\ calls' = [calls EXCEPT ![t] = [pc |-> "checked", id |-> id]]
                 /\ ret' = 0
            ELSE /\ calls' = calls
                 /\ ret' = IF in_range(id)
                             THEN u32_value(u32_mul(id, dimension)) ELSE nullptr
  /\ overlap' = (overlap \/ \E u \in Threads \ {t} : calls[u].pc # "idle")
  /\ op' = "weight_check"
  /\ arg_word' = <<>>
  /\ UNCHANGED <<pc, stream, dimension, dictionary, unknown_index, subform,
                 weights, subforms, previous_weights, active_subforms,
                 decomposed_forms, nwrites>>

\* lines 131-140 of thread t: the row recomputed and copied to the snapshot
WeightCompute(t) ==
  /\ pc = "loaded"
  /\ calls[t].pc = "checked"
  /\ LET id == calls[t].id
         w == materialized(id)
     IN /\ weights' = w
        /\ previous_weights' =
             [previous_weights EXCEPT ![id + 1] =
                [j \in 1..(dimension + 1) |->
                   IF j <= dimension THEN w[at(id, j - 1)]
                   ELSE previous_weights[id + 1][j]]]
        /\ arg_id' = id
  /\ calls' = [calls EXCEPT ![t].pc = "copied"]
  /\ op' = "weight_compute"
  /\ arg_word' = <<>>
  /\ ret' = 0
  /\ UNCHANGED <<pc, stream, dimension, dictionary, unknown_index, subform,
                 subforms, active_subforms, decomposed_forms, nwrites, overlap>>

\* line 141 of thread t: the flag set
WeightFlag(t) ==
  /\ pc = "loaded"
  /\ calls[t].pc = "copied"
  /\ previous_weights' =
       [previous_weights EXCEPT ![calls[t].id + 1][dimension + 1] = Flt(1)]
  /\ calls' = [calls EXCEPT ![t].pc = "flagged"]
  /\ op' = "weight_flag"
  /\ arg_word' = <<>>
  /\ arg_id' = calls[t].id
  /\ ret' = 0
  /\ UNCHANGED <<pc, stream, dimension, dictionary, unknown_index, subform,
                 weights, subforms, active_subforms, decomposed_forms, nwrites,
                 overlap>>

\* lines 142-146 of thread t: the id pushed to the active set, the row returned
WeightPush(t) ==
  /\ pc = "loaded"
  /\ calls[t].pc = "flagged"
  /\ active_subforms' = Append(active_subforms, calls[t].id)
  /\ calls' = [calls EXCEPT ![t].pc = "idle"]
  /\ op' = "weight_return"
  /\ arg_word' = <<>>
  /\ arg_id' = calls[t].id
  /\ ret' = u32_value(u32_mul(calls[t].id, dimension))
  /\ UNCHANGED <<pc, stream, dimension, dictionary, unknown_index, subform,
                 weights, subforms, previous_weights, decomposed_forms, nwrites,
                 overlap>>

Load == LoadFrom(Streams)
LookupWord == LookupWordFrom(IF subform THEN SubformWords ELSE LookupWords)
Weight == WeightFrom(WeightIds)

\* an embedding that is loaded and used for inference: rows are read, never
\* written, and update_weights is not called
Next ==
  \/ Load
  \/ LookupWord
  \/ UnknownWord
  \/ Weight

Spec == Init /\ [][Next]_vars

LoadTrain == LoadFrom(TrainStreams)
LookupWordTrain == LookupWordFrom(TrainWords)

\* an embedding in training: the trainer writes rows and flushes
NextTrain ==
  \/ LoadTrain
  \/ LookupWordTrain
  \/ Weight
  \/ Write
  \/ UpdateWeights

SpecTrain == Init /\ [][NextTrain]_vars

LoadNgram == LoadFrom(NgramStreams)
LookupWordNgram == LookupWordFrom(NgramWords)

\* an embedding in subform mode whose words are decomposed
NextNgram ==
  \/ LoadNgram
  \/ LookupWordNgram

SpecNgram == Init /\ [][NextNgram]_vars

LoadChain == LoadFrom(ChainStreams)
LookupWordChain == LookupWordFrom(ChainWords)

\* an embedding without subforms whose fallback chain is walked
NextChain ==
  \/ LoadChain
  \/ LookupWordChain
  \/ UnknownWord

SpecChain == Init /\ [][NextChain]_vars

LoadRace == LoadFrom(RaceStreams)
LookupWordRace == AllIdle /\ LookupWordFrom(RaceWords)
UpdateWeightsRace ==
  /\ AllIdle
  /\ \A k \in 1..((Len(stream.words) + stream.has_unknown) * dimension) :
       weights[k] = FloatAt(stream.seed, k - 1)
  /\ UpdateWeights
WeightCheckRace == \E t \in Threads : WeightCheck(t)
WeightComputeRace == \E t \in Threads : WeightCompute(t)
WeightFlagRace == \E t \in Threads : WeightFlag(t)
WeightPushRace == \E t \in Threads : WeightPush(t)

\* an embedding whose weight is called by two threads without a lock, their
\* calls interleaved between the statements of lines 130, 140, 141 and 142;
\* lookup_word and update_weights are called while no weight call is going on,
\* update_weights until a flush has moved a loaded row
NextRace ==
  \/ LoadRace
  \/ LookupWordRace
  \/ WeightCheckRace
  \/ WeightComputeRace
  \/ WeightFlagRace
  \/ WeightPushRace
  \/ UpdateWeightsRace

SpecRace == Init /\ [][NextRace]_vars

LoadRange == LoadFrom(RangeStreams)
WeightRange == WeightFrom(WeightIds \cup FarIds)

\* the range check of weight on embeddings of more dimensions
NextRange ==
  \/ LoadRange
  \/ WeightRange
  \/ WeightPastEnd

SpecRange == Init /\ [][NextRange]_vars

----------------------------------------------------------------------------
(* Properties *)

Range(f) == {f[x] : x \in DOMAIN f}

\* rows the stream declared: one per dictionary entry, one for unknown
loaded_rows ==
  Cardinality(DOMAIN dictionary) + (IF unknown_index >= 0 THEN 1 ELSE 0)

IsLut(chr) == category(chr) \cap Lut # {}
IsLetter(chr) == category(chr) \cap L # {}
IsNumeric(chr) == category(chr) \cap N # {}

\* the word with every code point lowercased
Lowered(word) == [i \in 1..Len(word) |-> lowercase(word[i])]

DistinctWords ==
  \A i, k \in 1..Len(stream.words) : stream.words[i] = stream.words[k] => i = k

\* what C6 says of a loaded embedding: the i-th word read (0-based) has id i,
\* there are dict_size + has_unknown rows, and the unknown row is the last
ReadOrderIds ==
  /\ \A i \in 1..Len(stream.words) :
       /\ stream.words[i] \in DOMAIN dictionary
       /\ dictionary[stream.words[i]] = i - 1
  /\ op = "load" =>
       /\ rows = Len(stream.words) + stream.has_unknown
       /\ Len(weights) = stream.dimension * rows
       /\ stream.has_unknown = 1 => unknown_index = rows - 1
       /\ stream.has_unknown = 0 => unknown_index = -1

\* C6 as stated: ids follow read order and there are dict_size + has_unknown
\* rows for every word sequence, repeated words included.
C6_ReadOrderIdsAlways == pc = "loaded" => ReadOrderIds

\* C6 as amended: ids follow read order and there are dict_size + has_unknown
\* rows, the unknown row last, for every stream whose words are pairwise
\* distinct.
C6_ReadOrderIdsIfDistinct == (pc = "loaded" /\ DistinctWords) => ReadOrderIds

C6_Witness ==
  /\ op = "load"
  /\ Len(stream.words) = 2
  /\ DistinctWords
  /\ stream.has_unknown = 1
  /\ unknown_index = 2
  /\ rows = 3

\* C7: in non-subform mode a word absent from the dictionary, with an
\* uppercase/titlecase first character and no later one, whose lowercased
\* form is a key, resolves to the id of the lowercased form.
C7_CapitalizedFallsBackToLowercase ==
  ( /\ op = "lookup_word"
    /\ ~subform
    /\ arg_word \notin DOMAIN dictionary
    /\ Len(arg_word) >= 1
    /\ IsLut(arg_word[1])
    /\ \A i \in 2..Len(arg_word) : ~IsLut(arg_word[i])
    /\ Lowered(arg_word) \in DOMAIN dictionary )
    => ret = dictionary[Lowered(arg_word)]

C7_Witness ==
  /\ op = "lookup_word"
  /\ ~subform
  /\ arg_word = <<"A", "a">>
  /\ arg_word \notin DOMAIN dictionary
  /\ <<"a", "a">> \in DOMAIN dictionary
  /\ ret = dictionary[<<"a", "a">>]
  /\ ret = 1

\* C8: in non-subform mode a word absent from the dictionary, with a numeric
\* first character and no letter, resolves to a dictionary id iff its first
\* character alone is a key, and then to that key's id; otherwise to the
\* unknown value, which is -1 when the stream has no unknown row.
C8_NumberFallsBackToFirstDigit ==
  ( /\ op = "lookup_word"
    /\ ~subform
    /\ arg_word \notin DOMAIN dictionary
    /\ Len(arg_word) >= 1
    /\ IsNumeric(arg_word[1])
    /\ \A i \in 1..Len(arg_word) : ~IsLetter(arg_word[i]) )
    => /\ ret \in Range(dictionary) <=> <<arg_word[1]>> \in DOMAIN dictionary
       /\ <<arg_word[1]>> \in DOMAIN dictionary => ret = dictionary[<<arg_word[1]>>]
       /\ <<arg_word[1]>> \notin DOMAIN dictionary =>
            /\ ret = unknown_index
            /\ stream.has_unknown = 0 => ret = -1

C8_Witness ==
  /\ op = "lookup_word"
  /\ ~subform
  /\ arg_word = <<"1", "-">>
  /\ <<"1">> \in DOMAIN dictionary
  /\ ret = dictionary[<<"1">>]
  /\ ret = 1

\* the step of the fallback chain of the word finds no dictionary entry:
\* neither the word, nor (first and a later character uppercase/titlecase)
\* the word lowercased but for its first character, nor (any character
\* uppercase/titlecase) the lowercased word, nor (first character numeric, no
\* letter after it) its first character
NoStepFinds(word) ==
  LET firstLut == Len(word) >= 1 /\ IsLut(word[1])
      laterLut == \E i \in 2..Len(word) : IsLut(word[i])
      butFirst == [i \in 1..Len(word) |->
                     IF i = 1 THEN word[i] ELSE lowercase(word[i])]
  IN /\ word \notin DOMAIN dictionary
     /\ (firstLut /\ laterLut) => butFirst \notin DOMAIN dictionary
     /\ (firstLut \/ laterLut) => Lowered(word) \notin DOMAIN dictionary
     /\ ( /\ Len(word) >= 1
          /\ IsNumeric(word[1])
          /\ \A i \in 2..Len(word) : ~IsLetter(word[i]) )
          => <<word[1]>> \notin DOMAIN dictionary

\* C9: with subform mode disabled and no unknown row, lookup_word of a word
\* no step of the chain resolves returns -1, unknown_word() returns -1, and
\* weight(-1) returns not-found and changes nothing.
C9_NoUnknownYieldsSentinel ==
  [][ (pc' = "loaded" /\ ~subform' /\ stream'.has_unknown = 0) =>
        /\ (op' = "lookup_word" /\ NoStepFinds(arg_word')) => ret' = -1
        /\ op' = "unknown_word" => ret' = -1
        /\ (op' = "weight" /\ arg_id' = -1) =>
             (ret' = nullptr /\ UNCHANGED embedding) ]_vars

C9_Witness ==
  /\ op = "weight"
  /\ arg_id = -1
  /\ ret = nullptr
  /\ ~subform
  /\ stream.has_unknown = 0
  /\ Len(stream.words) = 2
  /\ NoStepFinds(<<"1", "a">>)
  /\ <<"1">> \in DOMAIN dictionary

\* C10: subform lists, cache slots and rows stay in lockstep, and the two
\* assertions of lookup_word never fail.
C10_Lockstep ==
  /\ pc # "aborted"
  /\ pc = "loaded" =>
       /\ Len(subforms) = rows
       /\ Len(previous_weights) = rows
       /\ Len(weights) = rows * dimension

C10_Witness ==
  /\ op = "lookup_word"
  /\ subform
  /\ unknown_index < 0
  /\ ret = -1
  /\ arg_word \in DOMAIN decomposed_forms
  /\ rows = loaded_rows + 1
  /\ Len(subforms) = rows

\* id is a composed id: a row appended by lookup_word
Composed(id) == id >= loaded_rows /\ id < rows

RECURSIVE SumF(_)
SumF(s) == IF s = <<>> THEN Flt(0) ELSE FAdd(Head(s), SumF(Tail(s)))

\* the arithmetic mean of column j of the rows subs of the weights w
MeanOf(w, subs, j) ==
  LET total == SumF([i \in 1..Len(subs) |-> w[at(subs[i], j)]])
  IN Rat(total[1], total[2] * Len(subs))

\* C2: in subform mode the memo only grows: a word keeps the id its first
\* lookup_word returned over every later lookup, weight, write and flush,
\* every lookup_word returns the memoized id, no composed id stands for two
\* words, and the constituents of an id never change.
C2_LookupIdempotent ==
  [][ (pc = "loaded" /\ subform) =>
        /\ \A w \in DOMAIN decomposed_forms :
             /\ w \in DOMAIN decomposed_forms'
             /\ decomposed_forms'[w] = decomposed_forms[w]
             /\ decomposed_forms[w] >= 0 =>
                  subforms'[decomposed_forms[w] + 1] = subforms[decomposed_forms[w] + 1]
        /\ op' = "lookup_word" =>
             /\ arg_word' \in DOMAIN decomposed_forms'
             /\ ret' = decomposed_forms'[arg_word']
        /\ \A w1, w2 \in DOMAIN decomposed_forms' :
             (w1 # w2 /\ decomposed_forms'[w1] >= 0)
               => decomposed_forms'[w1] # decomposed_forms'[w2] ]_vars

\* a lookup that returns an id materialized, written and flushed before
C2_Witness ==
  /\ op = "lookup_word"
  /\ subform
  /\ nwrites = 1
  /\ Composed(ret)
  /\ ret = decomposed_forms[arg_word]
  /\ Cardinality(DOMAIN decomposed_forms) = 2
  /\ previous_weights[ret + 1][dimension + 1] = Flt(0)
  /\ \E j \in 1..dimension : previous_weights[ret + 1][j] # Flt(0)

\* C3: weight(id) on a composed id whose cache flag is stale leaves the row
\* of id equal to the mean of the rows of its subform list, the snapshot
\* equal to the row, the flag fresh and id in the active set.
C3_MaterializeIsMean ==
  [][ ( /\ pc = "loaded"
        /\ subform
        /\ op' = "weight"
        /\ Composed(arg_id')
        /\ stale(arg_id') ) =>
        /\ \A j \in 0..(dimension - 1) :
             /\ weights'[at(arg_id', j)] = MeanOf(weights', subforms'[arg_id' + 1], j)
             /\ previous_weights'[arg_id' + 1][j + 1] = weights'[at(arg_id', j)]
        /\ previous_weights'[arg_id' + 1][dimension + 1] = Flt(1)
        /\ arg_id' \in Range(active_subforms')
        /\ ret' = arg_id' * dimension ]_vars

\* a composed id of two constituents, just materialized after a flush has
\* moved its constituents' rows
C3_Witness ==
  /\ op = "weight"
  /\ subform
  /\ dimension = 2
  /\ Composed(arg_id)
  /\ Len(subforms[arg_id + 1]) = 2
  /\ active_subforms = <<arg_id>>
  /\ previous_weights[arg_id + 1][dimension + 1] = Flt(1)
  /\ \A j \in 0..(dimension - 1) :
       /\ weights[at(arg_id, j)] = MeanOf(weights, subforms[arg_id + 1], j)
       /\ previous_weights[arg_id + 1][j + 1] = weights[at(arg_id, j)]
  /\ weights[at(arg_id, 0)] = <<7, 2>>

\* (v - snapshot) / count of column j of the active id
Delta(id, j) ==
  LET d == FSub(weights[at(id, j)], previous_weights[id + 1][j + 1])
  IN Rat(d[1], d[2] * Len(subforms[id + 1]))

\* the deltas of column j of the active ids that have s as a constituent
DeltasInto(s, j) ==
  LET hit == SelectSeq([i \in 1..Len(active_subforms) |-> i],
                       LAMBDA i : s \in Range(subforms[active_subforms[i] + 1]))
  IN [n \in 1..Len(hit) |-> Delta(active_subforms[hit[n]], j)]

\* C4 as stated: update_weights raises each constituent row of every active
\* id by exactly that id's (v - snapshot) / count and leaves its flag stale.
C4_EachConstituentGainsDelta ==
  [][ (pc = "loaded" /\ subform /\ op' = "update_weights") =>
        \A n \in 1..Len(active_subforms) :
          LET id == active_subforms[n]
          IN /\ previous_weights'[id + 1][dimension + 1] = Flt(0)
             /\ \A s \in Range(subforms[id + 1]), j \in 0..(dimension - 1) :
                  weights'[at(s, j)] = FAdd(weights[at(s, j)], Delta(id, j)) ]_vars

\* C4 as amended: update_weights raises every loaded row by the sum of the
\* (v - snapshot) / count of the active ids it is a constituent of, which is
\* one id's (v - snapshot) / count when no other active id shares the
\* constituent, and leaves the flag of every active id stale.
C4_ConstituentsGainSumOfDeltas ==
  [][ (pc = "loaded" /\ subform /\ op' = "update_weights") =>
        /\ \A n \in 1..Len(active_subforms) :
             previous_weights'[active_subforms[n] + 1][dimension + 1] = Flt(0)
        /\ \A s \in 0..(loaded_rows - 1), j \in 0..(dimension - 1) :
             weights'[at(s, j)] = FAdd(weights[at(s, j)], SumF(DeltasInto(s, j))) ]_vars

\* a flush that has moved a written composed row's change into both of its
\* constituents
C4_Witness ==
  /\ op = "update_weights"
  /\ subform
  /\ dimension = 2
  /\ nwrites = 1
  /\ active_subforms = <<>>
  /\ \E id \in loaded_rows..(rows - 1) :
       /\ subforms[id + 1] = <<0, 1>>
       /\ weights[at(id, 0)] = <<5, 2>>
       /\ previous_weights[id + 1][dimension + 1] = Flt(0)
       /\ weights[at(0, 0)] = <<5, 2>>
       /\ weights[at(1, 0)] = <<9, 2>>

\* C5: weight(id) returns not-found iff id < 0 or id is at least the row
\* count, and then changes nothing.
C5_NotFoundIffOutOfRange ==
  [][ (pc = "loaded" /\ pc' = "loaded" /\ op' = "weight") =>
        /\ ret' = nullptr <=> (arg_id' < 0 \/ arg_id' >= rows)
        /\ ret' = nullptr => UNCHANGED embedding ]_vars

\* the cache slot of id is that of a composed id and its flag is set
fresh(id) ==
  previous_weights[id + 1] # <<>> /\ previous_weights[id + 1][dimension + 1] # Flt(0)

\* no id occurs twice in the sequence
NoDuplicates(s) == \A i, k \in 1..Len(s) : s[i] = s[k] => i = k

\* C11: in subform mode, under serialized calls, the active set holds exactly
\* the composed ids whose cache flag is fresh, each once and no loaded id, and
\* right after update_weights it is empty and every cache flag is stale.
C11_ActiveIffFresh ==
  (pc = "loaded" /\ subform) =>
    /\ \A id \in 0..(rows - 1) :
         id \in Range(active_subforms) <=> (Composed(id) /\ fresh(id))
    /\ Range(active_subforms) \subseteq 0..(rows - 1)
    /\ NoDuplicates(active_subforms)
    /\ \A id \in Range(active_subforms) : id >= loaded_rows
    /\ op = "update_weights" =>
         /\ active_subforms = <<>>
         /\ \A id \in 0..(rows - 1) : ~fresh(id)

\* two composed ids materialized and active, one of them materialized again
\* after a flush had made it stale
C11_Witness ==
  /\ op = "weight"
  /\ subform
  /\ nwrites = 1
  /\ Len(active_subforms) = 2
  /\ \A n \in 1..2 : Composed(active_subforms[n]) /\ fresh(active_subforms[n])
  /\ arg_id = active_subforms[2]
  /\ \E j \in 0..(dimension - 1) :
       weights[at(0, j)] # FloatAt(stream.seed, j)

\* the snapshot prev[id] is the mean of the rows of the constituents of id
\* in the weights w
SnapshotIsMeanIn(w, prev, id) ==
  \A j \in 0..(dimension - 1) :
    prev[id + 1][j + 1] = MeanOf(w, subforms[id + 1], j)

\* the row of id in the weights w is the snapshot prev[id]
RowIsSnapshotIn(w, prev, id) ==
  \A j \in 0..(dimension - 1) : w[at(id, j)] = prev[id + 1][j + 1]

\* the cache slot prev[id] is that of a composed id and its flag is set
FreshIn(prev, id) ==
  id < Len(prev) /\ prev[id + 1] # <<>> /\ prev[id + 1][dimension + 1] # Flt(0)

SnapshotIsMean(id) == SnapshotIsMeanIn(weights, previous_weights, id)
RowIsSnapshot(id) == RowIsSnapshotIn(weights, previous_weights, id)

\* every composed id whose flag is fresh has the mean of its constituents'
\* rows as its snapshot
AllFreshMeanIn(w, prev) ==
  \A id \in 0..(Len(prev) - 1) : FreshIn(prev, id) => SnapshotIsMeanIn(w, prev, id)

\* C12: in subform mode every step other than an external write to a row
\* that is not the row of an active composed id keeps the snapshot of every
\* fresh composed id equal to the mean of the current rows of its
\* constituents; and the row of a fresh composed id equals its snapshot from
\* its materialization on, over every step that is not an external write to
\* that row.
C12_FreshSnapshotIsMean ==
  [][ (pc = "loaded" /\ subform /\ pc' = "loaded") =>
        /\ ( /\ AllFreshMeanIn(weights, previous_weights)
             /\ ~(op' = "write" /\ arg_id' \notin Range(active_subforms)) )
             => AllFreshMeanIn(weights', previous_weights')
        /\ \A id \in 0..(Len(previous_weights') - 1) :
             ( /\ FreshIn(previous_weights', id)
               /\ FreshIn(previous_weights, id)
                    => RowIsSnapshotIn(weights, previous_weights, id)
               /\ ~(op' = "write" /\ arg_id' = id) )
               => RowIsSnapshotIn(weights', previous_weights', id) ]_vars

\* two fresh composed ids, the row of one just written by the trainer: both
\* snapshots are the means of the constituents, one row has left its snapshot
C12_Witness ==
  /\ op = "write"
  /\ subform
  /\ Len(active_subforms) = 2
  /\ arg_id = active_subforms[1]
  /\ \A n \in 1..2 : fresh(active_subforms[n]) /\ SnapshotIsMean(active_subforms[n])
  /\ ~RowIsSnapshot(active_subforms[1])
  /\ RowIsSnapshot(active_subforms[2])
  /\ Len(subforms[active_subforms[1] + 1]) = 2

\* C13: in subform mode the subform list of every composed id is non-empty,
\* strictly ascending and made of loaded ids only (dictionary ids or the
\* unknown id), and the subform list of every loaded id is empty.
C13_SubformListsSorted ==
  (pc = "loaded" /\ subform) =>
    \A id \in 0..(Len(subforms) - 1) :
      LET list == subforms[id + 1]
      IN IF id >= loaded_rows
           THEN /\ list # <<>>
                /\ \A i \in 1..(Len(list) - 1) : list[i] < list[i + 1]
                /\ \A i \in 1..Len(list) :
                     /\ list[i] >= 0
                     /\ list[i] < loaded_rows
                     /\ list[i] \in Range(dictionary) \cup {unknown_index}
           ELSE list = <<>>

\* a composed id whose n-gram ids were pushed out of order and twice
C13_Witness ==
  /\ op = "lookup_word"
  /\ subform
  /\ arg_word = <<"a", "a", "a">>
  /\ collect_subforms(word_bow_eow(arg_word), 1, 1, <<>>) = <<1, 0, 0>>
  /\ ret >= loaded_rows
  /\ subforms[ret + 1] = <<0, 1>>

\* the rows of the ids below n in the weights w are the float block of the
\* stream data
LoadedRowsKept(w, data, n) ==
  \A k \in 1..(n * data.dimension) : w[k] = FloatAt(data.seed, k - 1)

\* C14: as long as no external write has been made, every row of a loaded id
\* holds the value load gave it, whatever lookup_word, weight and
\* update_weights calls were made; and weight(id) on a loaded id returns its
\* row and changes no row, cache slot or subform list, nor the active set.
C14_LoadedRowsFixed ==
  [][ pc' = "loaded" =>
        /\ nwrites' = 0 =>
             LoadedRowsKept(weights', stream',
                            Cardinality(DOMAIN dictionary')
                              + (IF unknown_index' >= 0 THEN 1 ELSE 0))
        /\ (op' = "weight" /\ arg_id' >= 0 /\ arg_id' < loaded_rows) =>
             /\ ret' = arg_id' * dimension
             /\ UNCHANGED embedding ]_vars

\* a flush of a materialized, unwritten composed id of two constituents: its
\* zero delta has left the loaded rows as they were loaded
C14_Witness ==
  /\ op = "update_weights"
  /\ subform
  /\ nwrites = 0
  /\ \E id \in loaded_rows..(rows - 1) :
       /\ Len(subforms[id + 1]) = 2
       /\ previous_weights[id + 1][dimension + 1] = Flt(0)
       /\ previous_weights[id + 1][1] # Flt(0)
       /\ \A j \in 0..(dimension - 1) : weights[at(id, j)] = Flt(0)
  /\ LoadedRowsKept(weights, stream, loaded_rows)

\* the contiguous substrings of 2, 3 or 4 code points of '<' + word + '>'
Ngrams(word) ==
  LET m == word_bow_eow(word)
  IN {SubSeq(m, p, p + n - 1) : <<p, n>> \in
        {q \in (1..Len(m)) \X (2..4) : q[1] + q[2] - 1 <= Len(m)}}

\* the ids of the dictionary entries that are such a substring
NgramIds(word) == {dictionary[g] : g \in Ngrams(word) \cap DOMAIN dictionary}

\* the elements of a set of integers in ascending order
RECURSIVE Ascending(_)
Ascending(S) ==
  IF S = {} THEN <<>>
  ELSE LET least == CHOOSE x \in S : \A y \in S : x <= y
       IN <<least>> \o Ascending(S \ {least})

\* C15 as stated: the first lookup_word of a word in subform mode stores, as
\* the subform list of the id it returns, the ids of the dictionary entries
\* equal to a substring of 2 to 4 code points of the marked form, ascending.
C15_ListIsNgramIds ==
  [][ ( /\ pc = "loaded"
        /\ subform
        /\ op' = "lookup_word"
        /\ arg_word' \notin DOMAIN decomposed_forms ) =>
        /\ ret' = Len(subforms)
        /\ Len(subforms') = Len(subforms) + 1
        /\ subforms'[ret' + 1] = Ascending(NgramIds(arg_word')) ]_vars

\* C15 as amended: the same when at least one such entry exists; when none
\* exists the stored list is the unknown id alone if an unknown row is
\* configured, and no list is stored otherwise.
C15_ListIsNgramIdsUnlessNone ==
  [][ ( /\ pc = "loaded"
        /\ subform
        /\ op' = "lookup_word"
        /\ arg_word' \notin DOMAIN decomposed_forms ) =>
        IF NgramIds(arg_word') # {}
          THEN /\ ret' = Len(subforms)
               /\ Len(subforms') = Len(subforms) + 1
               /\ subforms'[ret' + 1] = Ascending(NgramIds(arg_word'))
        ELSE IF unknown_index >= 0
          THEN /\ ret' = Len(subforms)
               /\ Len(subforms') = Len(subforms) + 1
               /\ subforms'[ret' + 1] = <<unknown_index>>
        ELSE /\ ret' = unknown_index
             /\ subforms' = subforms ]_vars

\* the first lookup of a word whose marked form is a dictionary entry of five
\* code points and ends with one of four: only the latter is a constituent
C15_Witness ==
  /\ op = "lookup_word"
  /\ subform
  /\ arg_word = <<"a", "a", "a">>
  /\ word_bow_eow(arg_word) \in DOMAIN dictionary
  /\ dictionary[word_bow_eow(arg_word)] = 0
  /\ <<"a", "a", "a", ">">> \in DOMAIN dictionary
  /\ Cardinality(DOMAIN decomposed_forms) = 1
  /\ ret = loaded_rows
  /\ subforms[ret + 1] = <<1>>

\* C16: in subform mode, lookup_word of a word none of whose n-grams is a
\* dictionary key: without an unknown row it returns the negative sentinel,
\* creates no composed id and memoizes the sentinel, and a lookup of a word
\* so memoized returns the sentinel and changes nothing; with an unknown row
\* its first lookup creates a composed id whose list is [unknown_index].
C16_NoNgramYieldsSentinelOrUnknown ==
  [][ ( /\ pc = "loaded"
        /\ subform
        /\ op' = "lookup_word"
        /\ NgramIds(arg_word') = {} ) =>
        IF unknown_index < 0
          THEN /\ ret' = -1
               /\ pc' = "loaded"
               /\ Len(weights') = Len(weights)
               /\ Len(subforms') = Len(subforms)
               /\ Len(previous_weights') = Len(previous_weights)
               /\ arg_word' \in DOMAIN decomposed_forms'
               /\ decomposed_forms'[arg_word'] = -1
               /\ arg_word' \in DOMAIN decomposed_forms =>
                    (decomposed_forms[arg_word'] = -1 /\ UNCHANGED embedding)
          ELSE arg_word' \notin DOMAIN decomposed_forms =>
                 /\ ret' = Len(subforms)
                 /\ ret' >= loaded_rows
                 /\ subforms' = Append(subforms, <<unknown_index>>)
                 /\ decomposed_forms'[arg_word'] = ret' ]_vars

\* a lookup that returned the sentinel for a word without n-gram match, after
\* another word had been given a composed id
C16_Witness ==
  /\ op = "lookup_word"
  /\ subform
  /\ unknown_index < 0
  /\ dictionary # EmptyMap
  /\ NgramIds(arg_word) = {}
  /\ ret = -1
  /\ decomposed_forms[arg_word] = -1
  /\ \E w \in DOMAIN decomposed_forms : decomposed_forms[w] = loaded_rows
  /\ Len(subforms) = loaded_rows + 1
  /\ rows = loaded_rows + 1

\* C17: in subform mode a lookup_word that creates a composed id returns the
\* row count it found, adds exactly one row, all zeros, with a stale cache
\* slot and outside the active set, and leaves every row, subform list and
\* cache slot that existed, the active set and the dictionary as they were;
\* a lookup_word of a memoized word changes nothing.
C17_CreationAppendsOnly ==
  [][ (pc = "loaded" /\ subform /\ op' = "lookup_word") =>
        /\ (arg_word' \notin DOMAIN decomposed_forms /\ ret' >= 0) =>
             /\ ret' = rows
             /\ Len(weights') = Len(weights) + dimension
             /\ Len(subforms') = Len(subforms) + 1
             /\ Len(previous_weights') = Len(previous_weights) + 1
             /\ \A j \in 0..(dimension - 1) : weights'[at(ret', j)] = Flt(0)
             /\ previous_weights'[ret' + 1] = [j \in 1..(dimension + 1) |-> Flt(0)]
             /\ ret' \notin Range(active_subforms')
             /\ SubSeq(weights', 1, Len(weights)) = weights
             /\ SubSeq(subforms', 1, Len(subforms)) = subforms
             /\ SubSeq(previous_weights', 1, Len(previous_weights)) = previous_weights
             /\ UNCHANGED <<active_subforms, dictionary, dimension,
                            unknown_index, subform>>
        /\ arg_word' \in DOMAIN decomposed_forms =>
             (ret' = decomposed_forms[arg_word'] /\ UNCHANGED embedding) ]_vars

\* the second composed id, created while the first is materialized and in
\* the active set
C17_Witness ==
  /\ op = "lookup_word"
  /\ subform
  /\ ret = loaded_rows + 1
  /\ rows = loaded_rows + 2
  /\ active_subforms = <<loaded_rows>>
  /\ fresh(loaded_rows)
  /\ \E j \in 0..(dimension - 1) : weights[at(loaded_rows, j)] # Flt(0)
  /\ \A j \in 0..(dimension - 1) : weights[at(ret, j)] = Flt(0)
  /\ stale(ret)

\* C18: in non-subform mode, for a word absent from the dictionary: with an
\* uppercase/titlecase first and later character, the form lowercased but
\* for its first character wins when it is a key, whether or not the fully
\* lowercased form is a key too, and the fully lowercased form is returned
\* only when the former is no key; a word without any uppercase/titlecase
\* character is never looked up lowercased.
C18_ChainIsOrdered ==
  ( /\ op = "lookup_word"
    /\ ~subform
    /\ arg_word \notin DOMAIN dictionary ) =>
    LET word == arg_word
        firstLut == Len(word) >= 1 /\ IsLut(word[1])
        laterLut == \E i \in 2..Len(word) : IsLut(word[i])
        butFirst == [i \in 1..Len(word) |->
                       IF i = 1 THEN word[i] ELSE lowercase(word[i])]
        digit == /\ Len(word) >= 1
                 /\ IsNumeric(word[1])
                 /\ \A i \in 2..Len(word) : ~IsLetter(word[i])
                 /\ <<word[1]>> \in DOMAIN dictionary
    IN /\ (firstLut /\ laterLut /\ butFirst \in DOMAIN dictionary)
            => ret = dictionary[butFirst]
       /\ (firstLut /\ laterLut /\ butFirst \notin DOMAIN dictionary
             /\ Lowered(word) \in DOMAIN dictionary)
            => ret = dictionary[Lowered(word)]
       /\ (~firstLut /\ ~laterLut)
            => ret = IF digit THEN dictionary[<<word[1]>>] ELSE unknown_index

\* both lowercased forms of the word are keys: the one that keeps the first
\* character wins
C18_Witness ==
  /\ op = "lookup_word"
  /\ ~subform
  /\ arg_word = <<"A", "A">>
  /\ <<"A", "a">> \in DOMAIN dictionary
  /\ <<"a", "a">> \in DOMAIN dictionary
  /\ dictionary[<<"a", "a">>] = 0
  /\ ret = 1

\* C19: the range check of weight(id) rejects every id that is at least the
\* row count, also where id * dimension wraps around 2^32: weight returns
\* not-found, reads no cache slot and changes nothing.
C19_RangeCheckRejectsAll ==
  [][ (pc = "loaded" /\ op' = "weight" /\ arg_id' >= rows) =>
        /\ ~in_range(arg_id')
        /\ ret' = nullptr
        /\ pc' = "loaded"
        /\ UNCHANGED embedding ]_vars

\* C20: weight is not safe to call concurrently with itself.  When the
\* calls on the embedding are serialized no id occurs twice in the active
\* set; and update_weights, called with no external write made, moves a row
\* of a loaded id only when the active set it flushes holds an id twice,
\* whose redistribution it then applies once per occurrence.  (That such a
\* state is reached when two calls on one stale id both pass the test of line
\* 130 before either sets the flag is what C20_Witness describes.)
C20_DuplicateActiveOnlyWhenInterleaved ==
  [][ (pc' = "loaded" /\ subform') =>
        /\ ~overlap' => NoDuplicates(active_subforms')
        /\ ( /\ op' = "update_weights"
             /\ nwrites' = 0
             /\ ~LoadedRowsKept(weights', stream', loaded_rows) )
             => ~NoDuplicates(active_subforms) ]_vars

\* a flush after two interleaved weight calls on one stale composed id: the
\* id was in the active set twice, its redistribution was applied twice, and
\* the second application, taken from the row the first had overwritten, has
\* moved the loaded rows although nothing was written
C20_Witness ==
  /\ op = "update_weights"
  /\ subform
  /\ overlap
  /\ nwrites = 0
  /\ AllIdle
  /\ active_subforms = <<>>
  /\ rows = loaded_rows + 1
  /\ ~LoadedRowsKept(weights, stream, loaded_rows)

====
